---- MODULE Spec2Model ----
(***************************************************************************)
(* A model of the client-side Buckwalter morphological analyzer:           *)
(*   src/src/lib/aramorph/transliterate.js  (the character codec)          *)
(*   src/src/lib/aramorph/aramorph.js       (init, analyze, segment, ...)  *)
(*                                                                         *)
(* Strings are sequences of UTF-16 code units (integers); the JavaScript   *)
(* value undefined is the one-element sequence <<-1>>, which is no string. *)
(***************************************************************************)
EXTENDS Integers, Sequences, FiniteSets, TLC

VARIABLES
  prefixes, stems, suffixes, tableAB, tableBC, tableAC, \* aramorph.js:16-21
  pc, pending, fetchCount,                  \* the init() calls in flight
  arabicWord, outcome, results, trace,      \* the last analyze() call
  segWord, segs, segDone,                   \* a segment() call
  codecIn, codecNative, codecAscii, codecPhase \* a codec round trip

vars == <<prefixes, stems, suffixes, tableAB, tableBC, tableAC,
          pc, pending, fetchCount,
          arabicWord, outcome, results, trace,
          segWord, segs, segDone,
          codecIn, codecNative, codecAscii, codecPhase>>

dictVars == <<prefixes, stems, suffixes, tableAB, tableBC, tableAC>>
loadVars == <<pc, pending, fetchCount>>
analyzeVars == <<arabicWord, outcome, results, trace>>
segVars == <<segWord, segs, segDone>>
codecVars == <<codecIn, codecNative, codecAscii, codecPhase>>

----------------------------------------------------------------------------
(* Bounds of the model.                                                    *)

\* longest string handed to the codec
MaxCodecLen == 1
\* longest word handed to segment()
MaxWordLen == 11
\* number of init() calls that may be started
NumCalls == 2

----------------------------------------------------------------------------
(* Strings.                                                                *)

Max(S) == CHOOSE m \in S : \A n \in S : n <= m

Min2(a, b) == IF a < b THEN a ELSE b

Max2(a, b) == IF a > b THEN a ELSE b

\* All strings over the characters C of length 0..n.
StringsUpTo(C, n) == UNION {[1..k -> C] : k \in 0..n}

\* String.prototype.slice(from, to): negative indices count from the end,
\* both are clamped to 0..length.
Slice(s, from, to) ==
  LET n == Len(s)
      a == IF from < 0 THEN Max2(n + from, 0) ELSE Min2(from, n)
      b == IF to < 0 THEN Max2(n + to, 0) ELSE Min2(to, n)
  IN  IF b <= a THEN <<>> ELSE SubSeq(s, a + 1, b)

\* String.prototype.slice(from): to the end of the string.
SliceFrom(s, from) == Slice(s, from, Len(s))

\* The JavaScript value undefined.
Undefined == <<-1>>

\* `${v}` in a template literal: undefined prints as "undefined".
TemplateString(v) ==
  IF v = Undefined THEN <<117, 110, 100, 101, 102, 105, 110, 101, 100>> ELSE v

\* v || "" : undefined and the empty string are falsy.
OrEmpty(v) == IF v = Undefined THEN <<>> ELSE v

----------------------------------------------------------------------------
(* transliterate.js: the character map.                                    *)

\* '|>&<}AbptvjHxd*rzs$SDTZEg_fqklmnhwYyFNKaui~o0123456789`{
buck ==
  << 39, 124, 62, 38, 60, 125, 65, 98, 112, 116,
     118, 106, 72, 120, 100, 42, 114, 122, 115, 36,
     83, 68, 84, 90, 69, 103, 95, 102, 113, 107,
     108, 109, 110, 104, 119, 89, 121, 70, 78, 75,
     97, 117, 105, 126, 111, 48, 49, 50, 51, 52,
     53, 54, 55, 56, 57, 96, 123 >>

\* range(start, end): start, start+1, ..., end-1
range(start, end) == [i \in 1..Max2(end - start, 0) |-> start + i - 1]

unicodePoints ==
  range(1569, 1595)       \* 0x0621..0x063a hamza through ghayn
  \o range(1600, 1619)    \* 0x0640..0x0652 tatweel through sukuun
  \o range(1632, 1642)    \* 0x0660..0x0669 numerals
  \o range(1648, 1650)    \* 0x0670, 0x0671 dagger alif, wasla

\* U+0671 ARABIC LETTER ALEF WASLA
Wasla == 1649
\* U+0627 ARABIC LETTER ALEF
Alef == 1575

\* buck2unicMap[ch] || ch: the loop of lines 43-46 assigns in index order, so
\* the last index holding ch wins.
buck2unicMap(ch) ==
  LET I == {i \in 1..Len(buck) : buck[i] = ch}
  IN  IF I = {} THEN ch ELSE unicodePoints[Max(I)]

\* unic2buckMap[ch] || ch
unic2buckMap(ch) ==
  LET I == {i \in 1..Len(buck) : unicodePoints[i] = ch}
  IN  IF I = {} THEN ch ELSE buck[Max(I)]

\* buckwalterToUnicode without line 57: the alef wasla is kept.
buckwalterToUnicodeNoWasla(str) == [i \in 1..Len(str) |-> buck2unicMap(str[i])]

\* Buckwalter -> Unicode Arabic, then every alef wasla becomes a plain alef.
buckwalterToUnicode(str) ==
  LET result == [i \in 1..Len(str) |-> buck2unicMap(str[i])]
  IN  [i \in 1..Len(result) |-> IF result[i] = Wasla THEN Alef ELSE result[i]]

\* Unicode Arabic -> Buckwalter
unicodeToBuckwalter(str) == [i \in 1..Len(str) |-> unic2buckMap(str[i])]

----------------------------------------------------------------------------
(* aramorph.js: segment().                                                 *)

\* for (let preLen = 0; preLen <= 4; ...)
MaxPreLen == 4
\* while (stemLen >= 1 && sufLen <= 6)
MaxSufLen == 6

RECURSIVE SegmentWhile(_, _, _, _)
SegmentWhile(word, preLen, stemLen, sufLen) ==
  IF stemLen >= 1 /\ sufLen <= MaxSufLen
  THEN << << Slice(word, 0, preLen),
             Slice(word, preLen, preLen + stemLen),
             SliceFrom(word, preLen + stemLen) >> >>
       \o SegmentWhile(word, preLen, stemLen - 1, sufLen + 1)
  ELSE <<>>

\* SegmentFor with preLen < 4 for preLen <= 4: the loop stops one prefix
\* length early.
RECURSIVE SegmentForShort(_, _)
SegmentForShort(word, preLen) ==
  IF preLen < MaxPreLen
  THEN SegmentWhile(word, preLen, Len(word) - preLen, 0)
       \o SegmentForShort(word, preLen + 1)
  ELSE <<>>

RECURSIVE SegmentFor(_, _)
SegmentFor(word, preLen) ==
  IF preLen <= MaxPreLen
  THEN SegmentWhile(word, preLen, Len(word) - preLen, 0)
       \o SegmentFor(word, preLen + 1)
  ELSE <<>>

segment(word) == SegmentFor(word, 0)

\* function alternatives(word)
alternatives(word) ==
  IF Len(word) > 0 /\ word[Len(word)] = 119   \* word.endsWith("w")
  THEN <<word, word \o <<65>>>>               \* word + "A"
  ELSE <<word>>

----------------------------------------------------------------------------
(* Values of the variables a specification does not use.                   *)

\* let prefixes = null; ... (aramorph.js:16-21)
Null == [null |-> TRUE]

Calls == 1..NumCalls

\* The six data files fetched by init(), by the table each one fills.
Files == {"prefixes", "stems", "suffixes", "tableAB", "tableBC", "tableAC"}

DictNull ==
  /\ prefixes = Null /\ stems = Null /\ suffixes = Null
  /\ tableAB = Null /\ tableBC = Null /\ tableAC = Null

LoadIdle ==
  /\ pc = [c \in Calls |-> "idle"]
  /\ pending = [c \in Calls |-> {}]
  /\ fetchCount = [f \in Files |-> 0]

AnalyzeIdle ==
  /\ arabicWord = <<>> /\ outcome = "none" /\ results = <<>> /\ trace = <<>>

SegIdle == segWord = <<>> /\ segs = <<>> /\ segDone = FALSE

CodecIdle ==
  /\ codecIn = <<>> /\ codecNative = <<>> /\ codecAscii = <<>>
  /\ codecPhase = "idle"

----------------------------------------------------------------------------
(* The codec on its own: a string is converted to native script and back.  *)

BuckChars == {buck[i] : i \in 1..Len(buck)}

UnicodeChars == {unicodePoints[i] : i \in 1..Len(unicodePoints)}

\* Characters of neither side of the map: B, space, -, U+067E (peh),
\* U+06F1 (extended digit one), U+200C.
OutsideChars == {66, 32, 45, 1662, 1777, 8204}

CodecInputs == StringsUpTo(BuckChars \cup UnicodeChars \cup OutsideChars, MaxCodecLen)

InitCodec ==
  /\ codecIn \in CodecInputs
  /\ codecNative = <<>> /\ codecAscii = <<>> /\ codecPhase = "input"
  /\ DictNull /\ LoadIdle /\ AnalyzeIdle /\ SegIdle

ToNativeScript ==
  /\ codecPhase = "input"
  /\ codecNative' = buckwalterToUnicode(codecIn)
  /\ codecPhase' = "native"
  /\ UNCHANGED <<codecIn, codecAscii, dictVars, loadVars, analyzeVars, segVars>>

ToAsciiEncoded ==
  /\ codecPhase = "native"
  /\ codecAscii' = unicodeToBuckwalter(codecNative)
  /\ codecPhase' = "ascii"
  /\ UNCHANGED <<codecIn, codecNative, dictVars, loadVars, analyzeVars, segVars>>

NextCodec == ToNativeScript \/ ToAsciiEncoded

SpecCodec == InitCodec /\ [][NextCodec]_vars

\* The number of ASCII symbols and of code points the map pairs.
MapDomainSize == Cardinality(BuckChars)

MapCodomainSize == Cardinality(UnicodeChars)

\* The built lookup maps pair the ASCII symbols and the code points one to
\* one: no symbol and no code point occurs twice, and each map undoes the
\* other.
MapIsOneToOne ==
  /\ Len(buck) = Len(unicodePoints)
  /\ MapDomainSize = Len(buck) /\ MapCodomainSize = Len(unicodePoints)
  /\ \A c \in BuckChars :
       buck2unicMap(c) \in UnicodeChars /\ unic2buckMap(buck2unicMap(c)) = c
  /\ \A u \in UnicodeChars :
       unic2buckMap(u) \in BuckChars /\ buck2unicMap(unic2buckMap(u)) = u

\* After the round trip: every mapped ASCII character but '{' comes back as
\* itself, '{' comes back as 'A', and a character of neither side of the map
\* is unchanged by both conversions.
RoundTripHolds ==
  codecPhase = "ascii" =>
    /\ Len(codecNative) = Len(codecIn) /\ Len(codecAscii) = Len(codecIn)
    /\ \A i \in 1..Len(codecIn) :
         LET c == codecIn[i] IN
         /\ (c \in BuckChars /\ c # 123) => codecAscii[i] = c
         /\ c = 123 => (codecNative[i] = Alef /\ codecAscii[i] = 65)
         /\ c \notin (BuckChars \cup UnicodeChars) =>
              (codecNative[i] = c /\ codecAscii[i] = c)

----------------------------------------------------------------------------
(* segment() on its own.                                                   *)

\* Words over two letters (b, w), so that equal lengths differ in content.
SegWords == StringsUpTo({98, 119}, MaxWordLen)

InitSeg ==
  /\ segWord \in SegWords /\ segs = <<>> /\ segDone = FALSE
  /\ DictNull /\ LoadIdle /\ AnalyzeIdle /\ CodecIdle

Segment ==
  /\ ~segDone
  /\ segs' = segment(segWord)
  /\ segDone' = TRUE
  /\ UNCHANGED <<segWord, dictVars, loadVars, analyzeVars, codecVars>>

NextSeg == Segment

SpecSeg == InitSeg /\ [][NextSeg]_vars

\* The (prefix length, suffix length) pairs allowed for a word of length L.
SegShapes(L) ==
  {pk \in (0..MaxPreLen) \X (0..MaxSufLen) : L - pk[1] - pk[2] >= 1}

\* C7: segment(word) returns exactly the triples with prefix length p in
\* 0..4, suffix length k in 0..6 and stem length L-p-k >= 1 that concatenate
\* to the word, each once, ordered by p ascending and within p by stem length
\* descending; at most 35 triples, none for the empty word.
C7_SegmentExact ==
  segDone =>
    LET L == Len(segWord) IN
    /\ \A i \in 1..Len(segs) :
         /\ Len(segs[i]) = 3
         /\ <<Len(segs[i][1]), Len(segs[i][3])>> \in SegShapes(L)
         /\ segs[i][1] \o segs[i][2] \o segs[i][3] = segWord
    /\ \A pk \in SegShapes(L) :
         Cardinality({i \in 1..Len(segs) :
            Len(segs[i][1]) = pk[1] /\ Len(segs[i][3]) = pk[2]}) = 1
    /\ \A i, j \in 1..Len(segs) :
         i < j =>
           \/ Len(segs[i][1]) < Len(segs[j][1])
           \/ /\ Len(segs[i][1]) = Len(segs[j][1])
              /\ Len(segs[i][2]) > Len(segs[j][2])
    /\ Len(segs) <= 35
    /\ (L = 0 => segs = <<>>)

\* A word long enough for all 35 shapes has been segmented.
C7_Witness == segDone /\ Len(segs) = 35 /\ Len(segs[35][1]) = 4 /\ Len(segs[35][3]) = 6

----------------------------------------------------------------------------
(* aramorph.js: init().  Each call runs to its await in one step; each of  *)
(* its six fetches then settles in a step of its own.  The continuation of *)
(* the await runs, without interruption, in the job that settles the last  *)
(* fetch (or the first failing one), so lines 40-45 are one step.          *)

\* The parsed body of data file f as fetched by call c.
Response(c, f) == [call |-> c, file |-> f]

\* init() is invoked: line 29 returns when prefixes is set, otherwise lines
\* 31-38 start the six fetches and the call waits.
init(c) ==
  /\ pc[c] = "idle"
  /\ IF prefixes # Null
     THEN /\ pc' = [pc EXCEPT ![c] = "returned"]
          /\ UNCHANGED <<pending, fetchCount>>
     ELSE /\ pc' = [pc EXCEPT ![c] = "awaiting"]
          /\ pending' = [pending EXCEPT ![c] = Files]
          /\ fetchCount' = [f \in Files |-> fetchCount[f] + 1]
  /\ UNCHANGED <<dictVars, analyzeVars, segVars, codecVars>>

\* FetchFulfilled without Promise.all: each table is stored as soon as its
\* own file has arrived.
FetchFulfilledEager(c, f) ==
  /\ pc[c] = "awaiting" /\ f \in pending[c]
  /\ pending' = [pending EXCEPT ![c] = pending[c] \ {f}]
  /\ pc' = [pc EXCEPT ![c] = IF pending[c] = {f} THEN "resolved" ELSE "awaiting"]
  /\ prefixes' = IF f = "prefixes" THEN Response(c, f) ELSE prefixes
  /\ stems' = IF f = "stems" THEN Response(c, f) ELSE stems
  /\ suffixes' = IF f = "suffixes" THEN Response(c, f) ELSE suffixes
  /\ tableAB' = IF f = "tableAB" THEN Response(c, f) ELSE tableAB
  /\ tableBC' = IF f = "tableBC" THEN Response(c, f) ELSE tableBC
  /\ tableAC' = IF f = "tableAC" THEN Response(c, f) ELSE tableAC
  /\ UNCHANGED <<fetchCount, analyzeVars, segVars, codecVars>>

\* fetch(f).then(r => r.json()) of call c is fulfilled.  When it is the last
\* of the six, Promise.all is fulfilled and lines 40-45 store all six tables.
FetchFulfilled(c, f) ==
  /\ pc[c] = "awaiting" /\ f \in pending[c]
  /\ pending' = [pending EXCEPT ![c] = pending[c] \ {f}]
  /\ IF pending[c] = {f}
     THEN /\ pc' = [pc EXCEPT ![c] = "resolved"]
          /\ prefixes' = Response(c, "prefixes")
          /\ stems' = Response(c, "stems")
          /\ suffixes' = Response(c, "suffixes")
          /\ tableAB' = Response(c, "tableAB")
          /\ tableBC' = Response(c, "tableBC")
          /\ tableAC' = Response(c, "tableAC")
     ELSE UNCHANGED <<pc, dictVars>>
  /\ UNCHANGED <<fetchCount, analyzeVars, segVars, codecVars>>

\* fetch(f).then(r => r.json()) of call c is rejected: Promise.all rejects,
\* the await throws before line 40, and what the other fetches of the call
\* bring is dropped.
FetchRejected(c, f) ==
  /\ pc[c] = "awaiting" /\ f \in pending[c]
  /\ pc' = [pc EXCEPT ![c] = "rejected"]
  /\ pending' = [pending EXCEPT ![c] = {}]
  /\ UNCHANGED <<fetchCount, dictVars, analyzeVars, segVars, codecVars>>

InitLoad == DictNull /\ LoadIdle /\ AnalyzeIdle /\ SegIdle /\ CodecIdle

NextLoad ==
  \E c \in Calls :
    \/ init(c)
    \/ \E f \in Files : FetchFulfilled(c, f)
    \/ \E f \in Files : FetchRejected(c, f)

SpecLoad == InitLoad /\ [][NextLoad]_vars

\* All six tables hold what call c fetched.
LoadedBy(c) ==
  /\ prefixes = Response(c, "prefixes") /\ stems = Response(c, "stems")
  /\ suffixes = Response(c, "suffixes") /\ tableAB = Response(c, "tableAB")
  /\ tableBC = Response(c, "tableBC") /\ tableAC = Response(c, "tableAC")

\* C9 as stated: however init() calls interleave, each data file is fetched
\* at most once.
C9_EachFileFetchedOnce == \A f \in Files : fetchCount[f] <= 1

\* C10: in every reachable state the six tables are all null or all
\* populated (by one and the same call whose six fetches all succeeded); a
\* call with a failed fetch stores nothing, and a call returns without
\* fetching only when the tables are populated, so after a failure a later
\* call fetches all six files again.
C10_AtomicPublication ==
  /\ DictNull \/ \E c \in Calls : pc[c] = "resolved" /\ LoadedBy(c)
  /\ (\A c \in Calls : pc[c] # "resolved") => DictNull
  /\ \A c \in Calls : pc[c] = "returned" => ~DictNull
  /\ \A f \in Files :
       fetchCount[f] =
         Cardinality({c \in Calls : pc[c] \in {"awaiting", "resolved", "rejected"}})

\* One call failed and stored nothing; another call's load then succeeded.
C10_Witness ==
  \E c1, c2 \in Calls :
    pc[c1] = "rejected" /\ pc[c2] = "resolved" /\ LoadedBy(c2)

----------------------------------------------------------------------------
(* transliterate.js: buckwalterToALA().                                    *)

ala ==
  <<
     <<702>>, <<702, 257>>, <<702>>, <<702>>, <<702>>, <<702>>,
     <<257>>, <<98>>, <<104>>, <<116>>, <<7791>>, <<106>>,
     <<7717>>, <<7733>>, <<100>>, <<7695>>, <<114>>, <<122>>,
     <<115>>, <<353>>, <<7779>>, <<7693>>, <<7789>>, <<7827>>,
     <<703>>, <<7713>>, <<>>, <<102>>, <<113>>, <<107>>,
     <<108>>, <<109>>, <<110>>, <<104>>, <<119>>, <<257>>,
     <<121>>, <<97, 110>>, <<117, 110>>, <<105, 110>>, <<97>>, <<117>>,
     <<105>>, <<126>>, <<>>, <<48>>, <<49>>, <<50>>,
     <<51>>, <<52>>, <<53>>, <<54>>, <<55>>, <<56>>,
     <<57>>, <<257>>, <<>>
  >>

\* What "." does not match in a regular expression: \n, \r, U+2028, U+2029.
LineTerminators == {10, 13, 8232, 8233}

\* str.replace(/(.)~/g, "$1$1"), scanning from index i (1-based).
RECURSIVE ExpandShadda(_, _)
ExpandShadda(str, i) ==
  IF i > Len(str) THEN <<>>
  ELSE IF i < Len(str) /\ str[i + 1] = 126 /\ str[i] \notin LineTerminators
       THEN <<str[i], str[i]>> \o ExpandShadda(str, i + 2)
       ELSE <<str[i]>> \o ExpandShadda(str, i + 1)

\* str.replace(/pat/g, rep) for a literal pattern, scanning from index i.
RECURSIVE ReplaceAll(_, _, _, _)
ReplaceAll(str, pat, rep, i) ==
  IF i > Len(str) THEN <<>>
  ELSE IF i + Len(pat) - 1 <= Len(str) /\ SubSeq(str, i, i + Len(pat) - 1) = pat
       THEN rep \o ReplaceAll(str, pat, rep, i + Len(pat))
       ELSE <<str[i]>> \o ReplaceAll(str, pat, rep, i + 1)

\* idx = buck.indexOf(ch); idx >= 0 ? ala[idx] : ch, for each character from i.
RECURSIVE AlaLetters(_, _)
AlaLetters(str, i) ==
  IF i > Len(str) THEN <<>>
  ELSE LET I == {k \in 1..Len(buck) : buck[k] = str[i]}
       IN  (IF I = {} THEN <<str[i]>> ELSE ala[CHOOSE k \in I : \A m \in I : k <= m])
           \o AlaLetters(str, i + 1)

buckwalterToALA(str) ==
  LET r0 == AlaLetters(ExpandShadda(str, 1), 1)
      r1 == ReplaceAll(r0, <<117, 119>>, <<363>>, 1)       \* uw -> u macron
      r2 == ReplaceAll(r1, <<105, 121>>, <<299>>, 1)       \* iy -> i macron
      r3 == ReplaceAll(r2, <<257, 97, 110>>, <<97, 110>>, 1) \* a-macron an -> an
      r4 == ReplaceAll(r3, <<257, 97>>, <<257>>, 1)        \* a-macron a -> a-macron
      r5 == ReplaceAll(r4, <<363, 117>>, <<363>>, 1)       \* u-macron u -> u-macron
  IN  ReplaceAll(r5, <<108, 108, 108>>, <<108, 108>>, 1)   \* lll -> ll

----------------------------------------------------------------------------
(* aramorph.js: checkCompatibility() and analyzeBuckwalter().              *)

\* Property names every object parsed from JSON inherits from
\* Object.prototype: "key in table" is true for them, and table[key] is then
\* a function (or, for __proto__, Object.prototype itself), which for...of
\* cannot iterate.
ObjectPrototypeNames ==
  { <<99, 111, 110, 115, 116, 114, 117, 99, 116, 111, 114>>,  \* constructor
    <<116, 111, 83, 116, 114, 105, 110, 103>>,                \* toString
    <<118, 97, 108, 117, 101, 79, 102>>,                      \* valueOf
    <<104, 97, 115, 79, 119, 110, 80, 114, 111, 112, 101, 114, 116, 121>>, \* hasOwnProperty
    <<105, 115, 80, 114, 111, 116, 111, 116, 121, 112, 101, 79, 102>>,     \* isPrototypeOf
    <<116, 111, 76, 111, 99, 97, 108, 101, 83, 116, 114, 105, 110, 103>>,  \* toLocaleString
    <<112, 114, 111, 112, 101, 114, 116, 121, 73, 115, 69, 110, 117, 109,
      101, 114, 97, 98, 108, 101>>,                           \* propertyIsEnumerable
    <<95, 95, 112, 114, 111, 116, 111, 95, 95>> }             \* __proto__

\* key in table (line 64): own and inherited properties.
In(key, table) == key \in DOMAIN table \/ key \in ObjectPrototypeNames

\* Whether for (... of table[key]) can iterate: an own entry list can, an
\* inherited property cannot (TypeError).
Iterable(table, key) == key \in DOMAIN table

\* table[a]?.[b] taken as a condition (lines 125, 129).
Compatible(table, a, b) ==
  /\ a \in DOMAIN table
  /\ b \in DOMAIN table[a]
  /\ table[a][b] = TRUE

\* White space as trim() and \s see it.
IsSpace(ch) ==
  ch \in {9, 10, 11, 12, 13, 32, 160, 5760, 8232, 8233, 8239, 8287, 12288, 65279}
  \/ ch \in 8192..8202

\* Index of the first character from i on that is no white space (Len+1 if none).
RECURSIVE SkipSpaces(_, _)
SkipSpaces(str, i) ==
  IF i <= Len(str) /\ IsSpace(str[i]) THEN SkipSpaces(str, i + 1) ELSE i

\* Index of the last character up to i that is no white space (0 if none).
RECURSIVE SkipSpacesBack(_, _)
SkipSpacesBack(str, i) ==
  IF i >= 1 /\ IsSpace(str[i]) THEN SkipSpacesBack(str, i - 1) ELSE i

\* String.prototype.trim()
trim(str) == SubSeq(str, SkipSpaces(str, 1), SkipSpacesBack(str, Len(str)))

\* str.replace(/^\+\s*/, "")
StripLeadingPlus(str) ==
  IF Len(str) >= 1 /\ str[1] = 43
  THEN SubSeq(str, SkipSpaces(str, 2), Len(str))
  ELSE str

\* str.replace(/\s*\+\s*$/, ""): the match is the "+" that only white space
\* follows, with the white space before it.
StripTrailingPlus(str) ==
  LET e == SkipSpacesBack(str, Len(str))
  IN  IF e >= 1 /\ str[e] = 43
      THEN SubSeq(str, 1, SkipSpacesBack(str, e - 1))
      ELSE str

\* Lines 134-135.
ComposeGloss(pEntry, sEntry, xEntry) ==
  LET gloss == TemplateString(pEntry.gloss) \o <<32, 43, 32>>
               \o TemplateString(sEntry.gloss) \o <<32, 43, 32>>
               \o TemplateString(xEntry.gloss)
  IN  trim(StripTrailingPlus(StripLeadingPlus(trim(gloss))))

\* Lines 131-144: the result object of one surviving combination (every
\* entry has its vowelled form, a string).
Solution(word, pEntry, sEntry, xEntry) ==
  LET vowelled == pEntry.vowelled \o sEntry.vowelled \o xEntry.vowelled
  IN  [ word |-> buckwalterToUnicode(word),
        vowelled |-> buckwalterToUnicode(vowelled),
        transliteration |-> buckwalterToALA(vowelled),
        root |-> buckwalterToUnicode(OrEmpty(sEntry.root)),
        pos |-> sEntry.pos,
        gloss |-> ComposeGloss(pEntry, sEntry, xEntry) ]

\* What the model remembers of a surviving combination: where it was found,
\* the three entries, and the result object pushed for it.
Found(word, pre, stem, suf, pEntry, sEntry, xEntry) ==
  [ alt |-> word, pre |-> pre, stem |-> stem, suf |-> suf,
    p |-> pEntry, s |-> sEntry, x |-> xEntry,
    sol |-> Solution(word, pEntry, sEntry, xEntry) ]

\* ForSuffix with a third check: the prefix-suffix matrix AC is consulted too.
RECURSIVE ForSuffixCheckingAC(_, _, _, _, _, _, _)
ForSuffixCheckingAC(word, pre, stem, suf, pEntry, sEntry, k) ==
  IF k > Len(suffixes[suf]) THEN <<>>
  ELSE LET xEntry == suffixes[suf][k]
       IN  (IF /\ Compatible(tableBC, sEntry.category, xEntry.category)
               /\ Compatible(tableAC, pEntry.category, xEntry.category)
            THEN <<Found(word, pre, stem, suf, pEntry, sEntry, xEntry)>>
            ELSE <<>>)
           \o ForSuffixCheckingAC(word, pre, stem, suf, pEntry, sEntry, k + 1)

\* Lines 127-145: for (const xEntry of suffixes[suf]), from its k-th entry.
RECURSIVE ForSuffix(_, _, _, _, _, _, _)
ForSuffix(word, pre, stem, suf, pEntry, sEntry, k) ==
  IF k > Len(suffixes[suf]) THEN <<>>
  ELSE LET xEntry == suffixes[suf][k]
       IN  (IF Compatible(tableBC, sEntry.category, xEntry.category)
            THEN <<Found(word, pre, stem, suf, pEntry, sEntry, xEntry)>>
            ELSE <<>>)
           \o ForSuffix(word, pre, stem, suf, pEntry, sEntry, k + 1)

\* Lines 123-146: for (const sEntry of stems[stem]), from its j-th entry.
RECURSIVE ForStem(_, _, _, _, _, _)
ForStem(word, pre, stem, suf, pEntry, j) ==
  IF j > Len(stems[stem]) THEN <<>>
  ELSE LET sEntry == stems[stem][j]
       IN  (IF Compatible(tableAB, pEntry.category, sEntry.category)
            THEN ForSuffix(word, pre, stem, suf, pEntry, sEntry, 1)
            ELSE <<>>)
           \o ForStem(word, pre, stem, suf, pEntry, j + 1)

\* Lines 122-147: for (const pEntry of prefixes[pre]), from its i-th entry.
RECURSIVE ForPrefix(_, _, _, _, _)
ForPrefix(word, pre, stem, suf, i) ==
  IF i > Len(prefixes[pre]) THEN <<>>
  ELSE ForStem(word, pre, stem, suf, prefixes[pre][i], 1)
       \o ForPrefix(word, pre, stem, suf, i + 1)

\* Whether checkCompatibility throws a TypeError: a for...of reaches a
\* table[key] that is no entry list.
CheckThrows(pre, stem, suf) ==
  \/ ~Iterable(prefixes, pre)
  \/ /\ Len(prefixes[pre]) > 0
     /\ \/ ~Iterable(stems, stem)
        \/ /\ ~Iterable(suffixes, suf)
           /\ \E i \in 1..Len(prefixes[pre]), j \in 1..Len(stems[stem]) :
                Compatible(tableAB, prefixes[pre][i].category,
                           stems[stem][j].category)

\* checkCompatibility(word, pre, stem, suf): the combinations found, in order.
checkCompatibility(word, pre, stem, suf) ==
  [ threw |-> CheckThrows(pre, stem, suf),
    solutions |-> IF CheckThrows(pre, stem, suf) THEN <<>>
                  ELSE ForPrefix(word, pre, stem, suf, 1) ]


\* Lines 64-67 for one segmentation of the alternative alt.
SegmentOutcome(alt, seg) ==
  IF ~In(seg[1], prefixes) \/ ~In(seg[2], stems) \/ ~In(seg[3], suffixes)
  THEN [threw |-> FALSE, solutions |-> <<>>]
  ELSE checkCompatibility(alt, seg[1], seg[2], seg[3])

\* Lines 63-75: for (const [pre, stem, suf] of segment(alt)), from the n-th.
RECURSIVE ForSegments(_, _, _)
ForSegments(alt, segList, n) ==
  IF n > Len(segList) THEN [threw |-> FALSE, solutions |-> <<>>]
  ELSE LET head == SegmentOutcome(alt, segList[n])
           rest == ForSegments(alt, segList, n + 1)
       IN  IF head.threw THEN [threw |-> TRUE, solutions |-> <<>>]
           ELSE [threw |-> rest.threw,
                 solutions |-> IF rest.threw THEN <<>>
                               ELSE head.solutions \o rest.solutions]

\* Lines 62-76: for (const alt of alternatives(word)), from the n-th.
RECURSIVE ForAlternatives(_, _)
ForAlternatives(alts, n) ==
  IF n > Len(alts) THEN [threw |-> FALSE, solutions |-> <<>>]
  ELSE LET head == ForSegments(alts[n], segment(alts[n]), 1)
           rest == ForAlternatives(alts, n + 1)
       IN  IF head.threw THEN [threw |-> TRUE, solutions |-> <<>>]
           ELSE [threw |-> rest.threw,
                 solutions |-> IF rest.threw THEN <<>>
                               ELSE head.solutions \o rest.solutions]

\* Line 69: `${sol.vowelled}|${sol.pos}|${sol.gloss}`
Key(sol) ==
  TemplateString(sol.vowelled) \o <<124>> \o TemplateString(sol.pos)
  \o <<124>> \o TemplateString(sol.gloss)

\* Lines 68-74: push each solution whose key was not seen before.
RECURSIVE Dedup(_, _, _, _)
Dedup(found, n, seen, acc) ==
  IF n > Len(found) THEN acc
  ELSE IF Key(found[n].sol) \in seen
       THEN Dedup(found, n + 1, seen, acc)
       ELSE Dedup(found, n + 1, seen \cup {Key(found[n].sol)},
                  Append(acc, found[n].sol))

\* analyzeBuckwalter(word): whether it threw, the combinations found in
\* discovery order, and the array returned.
analyzeBuckwalter(word) ==
  LET all == ForAlternatives(alternatives(word), 1)
  IN  [ threw |-> all.threw,
        found |-> all.solutions,
        results |-> IF all.threw THEN <<>> ELSE Dedup(all.solutions, 1, {}, <<>>) ]

----------------------------------------------------------------------------
(* analyze() over a loaded dictionary.                                     *)

\* longest native-script word handed to analyze()
MaxInputLen == 2

PrefixEntry(cat, vow, gl) == [category |-> cat, vowelled |-> vow, gloss |-> gl]

SuffixEntry(cat, vow, gl) == [category |-> cat, vowelled |-> vow, gloss |-> gl]

\* A stem entry; a field the entry lacks reads as undefined.
StemEntry(cat, vow, gl, root, pos) ==
  [category |-> cat, vowelled |-> vow, gloss |-> gl, root |-> root, pos |-> pos]

Pcats == {"Pref-0", "Pref-Wa"}
Scats == {"N", "PV"}
Xcats == {"Suff-0", "NSuff-u"}

\* Compatibility matrices: any set of rows present, any flags in a row.
Matrices(Rows, Cols) == UNION {[D -> [Cols -> BOOLEAN]] : D \in SUBSET Rows}

Constant(Rows, Cols, flag) == [r \in Rows |-> [c \in Cols |-> flag]]

\* The prefix table: "" and "w"; gP is the gloss of the second "w" entry.
PrefixTable(gP) ==
  (<<>> :> << PrefixEntry("Pref-0", <<>>, <<>>) >>)
  @@ (<<119>> :> << PrefixEntry("Pref-Wa", <<119, 97>>, <<97, 110, 100>>),  \* wa "and"
                    PrefixEntry("Pref-0", <<119, 117>>, gP) >>)              \* wu

\* The suffix table: "" and "w"; gX is the gloss of the second "w" entry.
SuffixTable(gX) ==
  (<<>> :> << SuffixEntry("Suff-0", <<>>, <<>>) >>)
  @@ (<<119>> :> << SuffixEntry("NSuff-u", <<117, 119>>, <<116, 104, 101, 121>>), \* uw "they"
                    SuffixEntry("Suff-0", <<119>>, gX) >>)                        \* w

\* The stem table: "b" with two homographs e1, e2; "bw"; and "bwA", which
\* only the alternative spelling of a word ending in w reaches.
StemTable(e1, e2) ==
  (<<98>> :> <<e1, e2>>)
  @@ (<<98, 119>> :> << StemEntry("N", <<98, 105, 119>>, <<115>>, <<98, 119>>, <<78>>) >>)
  @@ (<<98, 119, 65>> :>
        << StemEntry("PV", <<98, 97, 119, 65>>, <<116>>, <<98, 119>>, <<86>>) >>)

\* The stem entries "b" may have: gloss "", "s" or "V|s"; pos absent, "N" or
\* "N|V"; root among Roots.
StemChoices(Roots) ==
  { StemEntry("N", <<98, 105>>, gl, root, pos) :
      gl \in {<<>>, <<115>>, <<86, 124, 115>>},
      root \in Roots,
      pos \in {Undefined, <<78>>, <<78, 124, 86>>} }

\* Dictionaries whose compatibility matrices vary over a fixed lexicon.
MatrixDictionaries ==
  { [ prefixes |-> PrefixTable(<<>>),
      stems |-> StemTable(StemEntry("N", <<98, 105>>, <<115>>, <<98, 98>>, <<78>>),
                          StemEntry("PV", <<98, 97>>, <<116>>, <<98, 98>>, <<86>>)),
      suffixes |-> SuffixTable(<<>>),
      tableAB |-> ab, tableBC |-> bc, tableAC |-> ac ] :
      ab \in Matrices(Pcats, Scats), bc \in Matrices(Scats, Xcats),
      ac \in {Constant(Pcats, Xcats, TRUE), Constant(Pcats, Xcats, FALSE)} }

\* Dictionaries whose lexicon varies under all-compatible matrices.
LexiconDictionaries ==
  { [ prefixes |-> PrefixTable(gP),
      stems |-> StemTable(e1, e2),
      suffixes |-> SuffixTable(gX),
      tableAB |-> Constant(Pcats, Scats, TRUE),
      tableBC |-> Constant(Scats, Xcats, TRUE),
      tableAC |-> Constant(Pcats, Xcats, TRUE) ] :
      gP \in {<<>>, <<112>>}, gX \in {<<>>, <<120>>},
      e1 \in StemChoices({Undefined, <<98, 98>>}),
      e2 \in StemChoices({<<98, 98>>}) }

Dictionaries == MatrixDictionaries \cup LexiconDictionaries

\* Words submitted: every string over beh (U+0628) and waw (U+0648) up to
\* MaxInputLen, and the non-Arabic words "valueOf" and "zz".
InputWords ==
  StringsUpTo({1576, 1608}, MaxInputLen)
  \cup { <<118, 97, 108, 117, 101, 79, 102>>, <<122, 122>> }

\* The state after one completed init(): the six tables hold a dictionary.
InitAnalyze ==
  /\ \E d \in Dictionaries :
       /\ prefixes = d.prefixes /\ stems = d.stems /\ suffixes = d.suffixes
       /\ tableAB = d.tableAB /\ tableBC = d.tableBC /\ tableAC = d.tableAC
  /\ pc = [c \in Calls |-> IF c = 1 THEN "resolved" ELSE "idle"]
  /\ pending = [c \in Calls |-> {}]
  /\ fetchCount = [f \in Files |-> 1]
  /\ AnalyzeIdle /\ SegIdle /\ CodecIdle

\* analyze(w), lines 53-56 (one call per behaviour: the call changes none
\* of the six tables, so a second call sees what the first one saw).
analyze(w) ==
  LET r == analyzeBuckwalter(unicodeToBuckwalter(w)) IN
  /\ outcome = "none"
  /\ arabicWord' = w
  /\ outcome' = IF r.threw THEN "threw" ELSE "returned"
  /\ results' = r.results
  /\ trace' = r.found
  /\ UNCHANGED <<dictVars, loadVars, segVars, codecVars>>

NextAnalyze == \E w \in InputWords : analyze(w)

SpecAnalyze == InitAnalyze /\ [][NextAnalyze]_vars


\* table[a][b] is true (the data contract's reading of a matrix).
MarkedCompatible(table, a, b) ==
  a \in DOMAIN table /\ b \in DOMAIN table[a] /\ table[a][b] = TRUE

\* The segmentations of the submitted word, over its alternative spellings,
\* whose three surface forms are entries of their tables.
PresentSegmentations ==
  LET alts == alternatives(unicodeToBuckwalter(arabicWord))
      SegmentsOf(alt) == LET sg == segment(alt) IN {sg[n] : n \in 1..Len(sg)}
  IN  { as \in UNION { {<<alts[a], sg>> : sg \in SegmentsOf(alts[a])} :
                       a \in 1..Len(alts) } :
          /\ as[2][1] \in DOMAIN prefixes
          /\ as[2][2] \in DOMAIN stems
          /\ as[2][3] \in DOMAIN suffixes }

\* The trace holds a result for the combination (p, s, x) of segmentation as.
Produced(as, p, s, x) ==
  \E t \in 1..Len(trace) :
    /\ trace[t].alt = as[1] /\ trace[t].pre = as[2][1]
    /\ trace[t].stem = as[2][2] /\ trace[t].suf = as[2][3]
    /\ trace[t].p = p /\ trace[t].s = s /\ trace[t].x = x
    /\ trace[t].sol.vowelled = buckwalterToUnicode(p.vowelled \o s.vowelled \o x.vowelled)

\* C1: for every segmentation present in the tables and every combination of
\* a prefix entry p, a stem entry s and a suffix entry x, a result is produced
\* if and only if AB[p.category][s.category] and BC[s.category][x.category]
\* are true; the matrix AC plays no part.
C1_CompatibilityGating ==
  outcome = "returned" =>
    \A as \in PresentSegmentations :
      \A i \in 1..Len(prefixes[as[2][1]]), j \in 1..Len(stems[as[2][2]]),
         k \in 1..Len(suffixes[as[2][3]]) :
        LET p == prefixes[as[2][1]][i]
            s == stems[as[2][2]][j]
            x == suffixes[as[2][3]][k]
        IN  Produced(as, p, s, x)
              <=> /\ MarkedCompatible(tableAB, p.category, s.category)
                  /\ MarkedCompatible(tableBC, s.category, x.category)

\* "wb" was analyzed under a dictionary where AC marks nothing compatible:
\* one combination was blocked by AB although BC allows its suffix, and
\* another combination produced a result.
C1_Witness ==
  /\ outcome = "returned" /\ arabicWord = <<1608, 1576>>
  /\ tableAC = Constant(Pcats, Xcats, FALSE)
  /\ Len(trace) > 0
  /\ \E as \in PresentSegmentations :
       \E i \in 1..Len(prefixes[as[2][1]]), j \in 1..Len(stems[as[2][2]]),
          k \in 1..Len(suffixes[as[2][3]]) :
         /\ ~MarkedCompatible(tableAB, prefixes[as[2][1]][i].category,
                              stems[as[2][2]][j].category)
         /\ MarkedCompatible(tableBC, stems[as[2][2]][j].category,
                             suffixes[as[2][3]][k].category)
         /\ ~Produced(as, prefixes[as[2][1]][i], stems[as[2][2]][j],
                      suffixes[as[2][3]][k])

\* C2 as stated: every result returned by analyze(w) has word = w, the
\* submitted native-script word, also when it was found through the
\* alternative spelling.
C2_WordIsSubmittedWord ==
  outcome = "returned" =>
    \A n \in 1..Len(results) : results[n].word = arabicWord

\* The (vowelled, pos, gloss) triple of a result.
Triple(sol) == <<sol.vowelled, sol.pos, sol.gloss>>

\* The places in the trace where a triple occurs for the first time.
FirstOccurrences ==
  {t \in 1..Len(trace) :
     \A u \in 1..(t - 1) : Triple(trace[u].sol) # Triple(trace[t].sol)}

\* C3 as stated: the returned sequence holds exactly one result per distinct
\* (vowelled, pos, gloss) triple among the surviving combinations, the first
\* one discovered, in discovery order.
C3_OneResultPerTriple ==
  outcome = "returned" =>
    /\ Len(results) = Cardinality(FirstOccurrences)
    /\ \A t \in FirstOccurrences :
         results[Cardinality({u \in FirstOccurrences : u <= t})] = trace[t].sol
    /\ \A m, n \in 1..Len(results) :
         m # n => Triple(results[m]) # Triple(results[n])

\* C4 as stated: a result built from a stem entry without root (pos) has
\* root = "" (pos = ""), and its deduplication key is built from that "".
C4_MissingFieldsAreEmpty ==
  outcome = "returned" =>
    \A t \in 1..Len(trace) :
      /\ trace[t].s.root = Undefined => trace[t].sol.root = <<>>
      /\ trace[t].s.pos = Undefined =>
           /\ trace[t].sol.pos = <<>>
           /\ Key(trace[t].sol) =
                trace[t].sol.vowelled \o <<124, 124>> \o trace[t].sol.gloss

\* C5 as stated: with a fully populated dictionary analyze(w) returns
\* normally for every input string w.
C5_AnalyzeNeverThrows == outcome # "threw"

\* No "+" at either end, and no two "+" with nothing but white space between.
WellFormedGloss(g) ==
  /\ Len(g) > 0 => (g[1] # 43 /\ g[Len(g)] # 43)
  /\ \A i, j \in 1..Len(g) :
       (i < j /\ g[i] = 43 /\ g[j] = 43) =>
         \E m \in (i + 1)..(j - 1) : ~IsSpace(g[m])

\* C6 as stated: whichever of the three glosses are empty, the composed gloss
\* neither begins nor ends with a "+" and has no two separators with nothing
\* between them.
C6_NoDanglingSeparator ==
  outcome = "returned" =>
    \A t \in 1..Len(trace) : WellFormedGloss(trace[t].sol.gloss)

====
